---- MODULE Spec2Model ----
(***************************************************************************)
(* Shuffle player: ffplay-music-player.py ("ffplay") and                   *)
(* music-shuffle-player-termux.py ("termux").  One state machine covers    *)
(* both scripts; the variable `variant` says which script is running.      *)
(*                                                                         *)
(* Granularity: one action per call made by the main thread.  A pending    *)
(* SIGINT becomes a KeyboardInterrupt when the interpreter next checks for *)
(* signals, which it does when a call returns and while a blocking call    *)
(* waits; every pc below is such a point.  A store of a constant (the      *)
(* `finally: ffplay_process = None` of play_file) belongs to the step that *)
(* leaves the function.                                                    *)
(*                                                                         *)
(* Faults of the environment that are modelled: NamedTemporaryFile, open,  *)
(* copyfileobj, os.remove of a stale file, os.rename, os.remove of the     *)
(* staged file, spawning the player, a non-zero player exit, a failing     *)
(* status poll.  The removal of the scratch file inside the except handler *)
(* of copy_to_temp_md5 and `termux-media-player stop` always succeed.      *)
(***************************************************************************)
EXTENDS Integers, Sequences, FiniteSets, TLC

VARIABLES
    variant,      \* which script runs: "ffplay" or "termux"
    library,      \* files under the library root: path -> content
    pc,           \* position of the main thread
    songs,        \* main's list `songs` (shuffled in place)
    idx,          \* position of the for loop in `songs`
    attempted,    \* tracks the for loop has taken in the current pass
    tempDir,      \* derived-name paths of the temp directory: name -> file
    scratch,      \* the NamedTemporaryFile of the current/last stage call
    leaked,       \* scratch files of earlier stage calls still on disk
    tmpBound,     \* copy_to_temp_md5: is local `tmp_path` bound
    destExisted,  \* copy_to_temp_md5: what os.path.exists(dest_path) answered
    temp_path,    \* main's `temp_path`
    ffplay_process, \* the global handle slot (ffplay)
    player,       \* the external player: process (ffplay) or service (termux)
    playerFile,   \* the path the player was started on
    sigs,         \* signals sent to the player process, in order
    ret,          \* who called cleanup_ffplay
    exc,          \* exception in flight / cause of termination
    success,      \* what play_file returned
    outcome,      \* how the last iteration ended, and on which derived name
    interrupts,   \* KeyboardInterrupts delivered so far
    exitStatus    \* process exit status, None while running

vars == <<variant, library, pc, songs, idx, attempted, tempDir, scratch, leaked,
          tmpBound, destExisted, temp_path, ffplay_process, player, playerFile, sigs, ret,
          exc, success, outcome, interrupts, exitStatus>>

(***************************************************************************)
(* Bounds                                                                  *)
(***************************************************************************)
NumTracks == 3
MaxInterrupts == 2
MaxLeaked == 1

(***************************************************************************)
(* Paths, extensions, derived names                                        *)
(***************************************************************************)
None == "None"

\* Exit statuses are <<n>>; <<>> while the process runs.
Running == <<>>

\* A path is a directory and a file name; a file name is a sequence of
\* tokens, where a token starting an extension begins with a dot.
DotTokens == {".mp3", ".MP3", ".flac", ".FLAC", ".ogg", ".txt"}

MUSIC_EXTS == {".mp3", ".flac", ".wav", ".m4a", ".ogg", ".aac",
               ".opus", ".wma", ".ape", ".aiff", ".dsf"}

Lower(tok) ==
    CASE tok = ".MP3"  -> ".mp3"
      [] tok = ".FLAC" -> ".flac"
      [] OTHER         -> tok

\* os.path.splitext on the base name: the last dot-token, unless it leads.
Splitext(name) ==
    IF Len(name) > 1 /\ name[Len(name)] \in DotTokens
    THEN <<SubSeq(name, 1, Len(name) - 1), name[Len(name)]>>
    ELSE <<name, "">>

\* os.path.basename
Basename(path) == path.name

\* hashlib.md5(...).hexdigest(): an injective tag of its argument.
Md5(s) == <<"md5", s>>

\* desired_name = hash_md5 + ext; dest_path = temp_dir/desired_name
DerivedName(path) ==
    [hash |-> Md5(Splitext(Basename(path))[1]),
     ext  |-> Splitext(Basename(path))[2]]

MusicFiles ==
    << [dir |-> "a", name |-> <<"intro", ".mp3">>],
       [dir |-> "a", name |-> <<"outro", ".FLAC">>],
       [dir |-> "b", name |-> <<"intro", ".mp3">>],
       [dir |-> "b", name |-> <<"live", ".v2", ".ogg">>],
       [dir |-> "c", name |-> <<"outro", ".flac">>] >>

NotesFile == [dir |-> "a", name |-> <<"notes", ".txt">>]

Range(s) == {s[i] : i \in 1..Len(s)}

\* The two library roots of the model: one with NumTracks music files and
\* notes.txt, one with notes.txt only.  Content of music file i is i.
MusicFolder ==
    [f \in {MusicFiles[i] : i \in 1..NumTracks} \cup {NotesFile} |->
        IF f = NotesFile THEN 9
        ELSE CHOOSE i \in 1..NumTracks : MusicFiles[i] = f]

NotesFolder == [f \in {NotesFile} |-> 9]

\* gather_music_files: os.walk order is the order of MusicFiles.
RECURSIVE GatherFrom(_, _)
GatherFrom(lib, i) ==
    IF i > Len(MusicFiles) THEN <<>>
    ELSE LET f == MusicFiles[i]
             ext == Lower(Splitext(f.name)[2])
         IN  IF f \in DOMAIN lib /\ ext \in MUSIC_EXTS
             THEN <<f>> \o GatherFrom(lib, i + 1)
             ELSE GatherFrom(lib, i + 1)

gather_music_files(lib) == GatherFrom(lib, 1)

\* Every derived name a music file of the model can have.
Names == {DerivedName(MusicFiles[i]) : i \in 1..Len(MusicFiles)}

(***************************************************************************)
(* Files of the temp directory                                             *)
(***************************************************************************)
NoFile == [exists |-> FALSE, complete |-> FALSE, data |-> 0, mine |-> FALSE]
StaleFile == [exists |-> TRUE, complete |-> TRUE, data |-> 0, mine |-> FALSE]
EmptyScratch == [exists |-> TRUE, complete |-> FALSE, data |-> 0, mine |-> TRUE]
FullCopy(d) == [exists |-> TRUE, complete |-> TRUE, data |-> d, mine |-> TRUE]
PartialCopy(d) == [exists |-> TRUE, complete |-> FALSE, data |-> d, mine |-> TRUE]

song == songs[idx]
dest_path == DerivedName(song)

Min(a, b) == IF a < b THEN a ELSE b

\* The value None of a path-valued variable.
NoPath == [hash |-> Md5(<<>>), ext |-> ""]

NoOutcome == [how |-> "none", name |-> NoPath]

(***************************************************************************)
(* Initial state: the interpreter is about to run main().                  *)
(***************************************************************************)
Init ==
    /\ variant \in {"ffplay", "termux"}
    /\ library \in {MusicFolder, NotesFolder}
    /\ pc = "start"
    /\ songs = <<>>
    /\ idx = 0
    /\ attempted = <<>>
    \* stale derived-name files of an earlier, crashed run may be present
    /\ tempDir \in [Names -> {NoFile, StaleFile}]
    /\ \A n \in Names :
          tempDir[n].exists => \E i \in 1..NumTracks : DerivedName(MusicFiles[i]) = n
    /\ scratch = NoFile
    /\ leaked = 0
    /\ tmpBound = FALSE
    /\ destExisted = FALSE
    /\ temp_path = NoPath
    /\ ffplay_process = None
    /\ player = "none"
    /\ playerFile = NoPath
    /\ sigs = <<>>
    /\ ret = None
    /\ exc = None
    /\ success = None
    /\ outcome = NoOutcome
    /\ interrupts = 0
    /\ exitStatus = Running


(***************************************************************************)
(* The external player                                                     *)
(***************************************************************************)
\* ffplay: a child process.  termux: the media-player service, which is
\* "running" while a track is loaded and "none" otherwise.
Alive(p) == p \in {"running", "terminating"}

Exited(p) == p \in {"exited_0", "exited_1", "exited_term"}

(***************************************************************************)
(* Leaving the process.  sys.exit and an uncaught exception both run the   *)
(* atexit hooks once atexit.register has been called.                      *)
(***************************************************************************)
\* sys.exit(1) before atexit.register: the process is gone at once.
ExitEarly(status) ==
    /\ pc' = "exited"
    /\ exitStatus' = status

\* sys.exit / uncaught exception after atexit.register.
ExitVia(status, cause) ==
    /\ pc' = "atexit"
    /\ exitStatus' = status
    /\ exc' = cause

(***************************************************************************)
(* main, up to the playback loop                                           *)
(***************************************************************************)
Startup ==
    /\ pc = "start"
    /\ \E argcOk \in BOOLEAN, isDir \in BOOLEAN, hasFfplay \in BOOLEAN :
          IF ~argcOk \/ ~isDir \/ (variant = "ffplay" /\ ~hasFfplay)
          THEN /\ ExitEarly(<<1>>)
               /\ UNCHANGED <<songs, exc>>
          ELSE LET found == gather_music_files(library)
               IN  IF found = <<>>
                   THEN /\ ExitVia(<<1>>, "SystemExit")
                        /\ UNCHANGED songs
                   ELSE /\ songs' = found
                        /\ pc' = "shuffle"
                        /\ UNCHANGED <<exc, exitStatus>>
    /\ UNCHANGED <<variant, destExisted, library, idx, attempted, tempDir, scratch, leaked,
                   tmpBound, temp_path, ffplay_process, player, playerFile,
                   sigs, ret, success, outcome, interrupts>>

\* random.shuffle(songs): any rearrangement of the same list.
Shuffles(s) ==
    {[i \in 1..Len(s) |-> s[p[i]]] : p \in Permutations(1..Len(s))}

Shuffle ==
    /\ pc = "shuffle"
    /\ songs' \in Shuffles(songs)
    /\ idx' = 1
    /\ attempted' = <<>>
    /\ pc' = "for"
    /\ UNCHANGED <<variant, destExisted, library, tempDir, scratch, leaked, tmpBound,
                   temp_path, ffplay_process, player, playerFile, sigs, ret,
                   exc, success, outcome, interrupts, exitStatus>>

\* `for song in songs`: take the next song, or fall out to `while True`.
NextSong ==
    /\ pc = "for"
    /\ IF idx > Len(songs)
       THEN /\ pc' = "shuffle"
            /\ UNCHANGED <<attempted, outcome>>
       ELSE /\ pc' = "stage_create"
            /\ attempted' = Append(attempted, songs[idx])
            /\ outcome' = NoOutcome
    /\ success' = None
    \* a child that has exited and was waited for is no longer there
    /\ player' = IF Alive(player) THEN player ELSE "none"
    /\ playerFile' = IF Alive(player) THEN playerFile ELSE NoPath
    /\ UNCHANGED <<variant, destExisted, library, songs, idx, tempDir, scratch,
                   leaked, tmpBound, temp_path, ffplay_process, sigs, ret, exc,
                   interrupts, exitStatus>>

\* The iteration is over without an exception: `continue` / end of body.
IterationEnds(how) ==
    /\ outcome' = [how |-> how, name |-> dest_path]
    /\ idx' = idx + 1
    /\ pc' = "for"

(***************************************************************************)
(* copy_to_temp_md5                                                        *)
(***************************************************************************)
\* The except handler's test before os.remove(tmp_path).
\* ffplay: 'tmp_path' in locals() and os.path.exists(tmp_path)
\* termux: os.path.exists(tmp_path), an UnboundLocalError when unbound.
HandlerRaises(bound) == variant = "termux" /\ ~bound

HandlerRemoves(bound, scr) == bound /\ scr.exists

\* `except Exception` of copy_to_temp_md5, entered with scratch file scr.
StageExcept(scr, bound) ==
    IF HandlerRaises(bound)
    THEN /\ scratch' = scr
         /\ ExitVia(<<1>>, "UnboundLocalError")
         /\ outcome' = [how |-> "stage_crashed", name |-> dest_path]
         /\ UNCHANGED temp_path
    ELSE /\ scratch' = IF HandlerRemoves(bound, scr) THEN NoFile ELSE scr
         /\ temp_path' = NoPath
         /\ pc' = "staged"
         /\ UNCHANGED <<exc, exitStatus, outcome>>

\* tempfile.NamedTemporaryFile(dir=temp_dir, suffix=ext, delete=False)
StageCreate ==
    /\ pc = "stage_create"
    /\ leaked' = IF scratch.exists THEN Min(leaked + 1, MaxLeaked) ELSE leaked
    /\ tmpBound' = FALSE
    /\ destExisted' = FALSE
    /\ \/ /\ scratch' = EmptyScratch
          /\ pc' = "stage_open"
          /\ UNCHANGED <<temp_path, exc, exitStatus, outcome>>
       \/ StageExcept(NoFile, FALSE)
    /\ UNCHANGED <<variant, library, songs, idx, attempted, tempDir,
                   ffplay_process, player, playerFile, sigs, ret, success,
                   interrupts>>

\* A source opened for writing, which truncates it (not what the code does).
OpenSourceForWriting(lib, f) == [lib EXCEPT ![f] = 0]

\* What open(original_path, 'rb') leaves of the library: mode 'rb' reads.
OpenSource(lib, f) == lib

\* open(original_path, 'rb')
StageOpen ==
    /\ pc = "stage_open"
    /\ \/ /\ pc' = "stage_copy"
          /\ library' = OpenSource(library, song)
          /\ UNCHANGED <<scratch, temp_path, exc, exitStatus, outcome>>
       \/ /\ StageExcept(scratch, tmpBound)
          /\ UNCHANGED library
    /\ UNCHANGED <<variant, destExisted, songs, idx, attempted, tempDir, leaked,
                   tmpBound, ffplay_process, player, playerFile, sigs, ret,
                   success, interrupts>>

\* fs is [dir |-> the derived-name paths, scr |-> the scratch file].
\* A copy written under the derived name itself (not what the code does).
CopyIntoDest(fs, name, file) ==
    [dir |-> [fs.dir EXCEPT ![name] = file], scr |-> fs.scr]

\* Where shutil.copyfileobj(src, tmp_file) writes: the scratch file.
CopyInto(fs, name, file) ==
    [dir |-> fs.dir, scr |-> file]

\* shutil.copyfileobj, then tmp_path = tmp_file.name and the file is closed
StageCopy ==
    /\ pc = "stage_copy"
    /\ \/ LET fs == CopyInto([dir |-> tempDir, scr |-> scratch], dest_path,
                             FullCopy(library[song]))
          IN  /\ tempDir' = fs.dir
              /\ scratch' = fs.scr
              /\ tmpBound' = TRUE
              /\ pc' = "stage_exists"
              /\ UNCHANGED <<temp_path, exc, exitStatus, outcome>>
       \/ LET fs == CopyInto([dir |-> tempDir, scr |-> scratch], dest_path,
                             PartialCopy(library[song]))
          IN  /\ tempDir' = fs.dir
              /\ UNCHANGED tmpBound
              /\ StageExcept(fs.scr, tmpBound)
    /\ UNCHANGED <<variant, destExisted, library, songs, idx, attempted, leaked,
                   ffplay_process, player, playerFile, sigs, ret, success,
                   interrupts>>

\* if os.path.exists(dest_path): os.remove(dest_path)
StageRemoveStale ==
    /\ pc = "stage_exists"
    /\ destExisted' = tempDir[dest_path].exists
    /\ IF tempDir[dest_path].exists
       THEN \/ /\ tempDir' = [tempDir EXCEPT ![dest_path] = NoFile]
               /\ pc' = "stage_rename"
               /\ UNCHANGED <<scratch, temp_path, exc, exitStatus, outcome>>
            \/ /\ StageExcept(scratch, tmpBound)
               /\ UNCHANGED tempDir
       ELSE /\ pc' = "stage_rename"
            /\ UNCHANGED <<tempDir, scratch, temp_path, exc, exitStatus, outcome>>
    /\ UNCHANGED <<variant, library, songs, idx, attempted, leaked, tmpBound,
                   ffplay_process, player, playerFile, sigs, ret, success,
                   interrupts>>

\* A rename that leaves the old name in place (not what the code does).
RenameCopies(fs, name) ==
    [dir |-> [fs.dir EXCEPT ![name] = fs.scr], scr |-> fs.scr]

\* os.rename(tmp_path, dest_path): the file moves, nothing stays behind.
Rename(fs, name) ==
    [dir |-> [fs.dir EXCEPT ![name] = fs.scr], scr |-> NoFile]

\* os.rename(tmp_path, dest_path); return dest_path
StageRename ==
    /\ pc = "stage_rename"
    /\ \/ LET fs == Rename([dir |-> tempDir, scr |-> scratch], dest_path)
          IN  /\ tempDir' = fs.dir
              /\ scratch' = fs.scr
              /\ temp_path' = dest_path
              /\ pc' = "staged"
              /\ UNCHANGED <<exc, exitStatus, outcome>>
       \/ /\ StageExcept(scratch, tmpBound)
          /\ UNCHANGED tempDir
    /\ UNCHANGED <<variant, destExisted, library, songs, idx, attempted, leaked, tmpBound,
                   ffplay_process, player, playerFile, sigs, ret, success,
                   interrupts>>

\* temp_path = copy_to_temp_md5(song); if temp_path is None: continue
\* (the locals of copy_to_temp_md5 are gone once it has returned)
CheckStaged ==
    /\ pc = "staged"
    /\ IF temp_path = NoPath
       THEN IterationEnds("stage_failed")
       ELSE /\ pc' = "play_spawn"
            /\ UNCHANGED <<idx, outcome>>
    /\ tmpBound' = FALSE
    /\ destExisted' = FALSE
    /\ UNCHANGED <<variant, library, songs, attempted, tempDir, scratch,
                   leaked, temp_path, ffplay_process, player, playerFile,
                   sigs, ret, exc, success, interrupts, exitStatus>>

\* The player ends by itself: the track is over, the file cannot be decoded,
\* or a SIGTERM it received took effect.
PlayerEnds ==
    /\ Alive(player)
    /\ IF variant = "termux"
       THEN player' = "none"
       ELSE IF player = "terminating"
            THEN player' = "exited_term"
            ELSE player' \in {"exited_0", "exited_1"}
    /\ UNCHANGED <<variant, destExisted, library, pc, songs, idx, attempted, tempDir,
                   scratch, leaked, tmpBound, temp_path, ffplay_process,
                   playerFile, sigs, ret, exc, success, outcome, interrupts,
                   exitStatus>>

(***************************************************************************)
(* play_file                                                               *)
(***************************************************************************)
\* play_file without its finally clause (not what the code does).
FinallyKeepsSlot(slot) == slot

\* `finally: ffplay_process = None` of play_file (ffplay)
FinallyClearSlot(slot) == None

\* ffplay: subprocess.Popen(cmd, ...), the handle not yet stored.
\* termux: subprocess.run(['termux-media-player', 'play', filepath], check=True)
PlaySpawn ==
    /\ pc = "play_spawn"
    /\ IF variant = "ffplay"
       THEN \/ /\ player' = "running"
               /\ playerFile' = temp_path
               /\ sigs' = <<>>
               /\ pc' = "play_store"
               /\ UNCHANGED <<success, exc, ffplay_process>>
            \/ \* Popen raises OSError: except Exception, return False
               /\ success' = "False"
               /\ ffplay_process' = FinallyClearSlot(ffplay_process)
               /\ pc' = "cleanup"
               /\ UNCHANGED <<player, playerFile, sigs, exc>>
       ELSE \/ /\ player' = "running"
               /\ playerFile' = temp_path
               /\ success' = "True"
               /\ pc' = "poll"
               /\ UNCHANGED <<sigs, exc, ffplay_process>>
            \/ \* CalledProcessError: return False
               /\ success' = "False"
               /\ pc' = "play_failed"
               /\ UNCHANGED <<player, playerFile, sigs, exc, ffplay_process>>
            \/ \* the executable cannot be run: FileNotFoundError, not caught
               /\ exc' = "FileNotFoundError"
               /\ pc' = "cleanup"
               /\ UNCHANGED <<player, playerFile, sigs, success, ffplay_process>>
    /\ UNCHANGED <<variant, destExisted, library, songs, idx, attempted, tempDir, scratch,
                   leaked, tmpBound, temp_path, ret, outcome, interrupts,
                   exitStatus>>

\* ffplay_process = <the Popen object>
PlayStore ==
    /\ pc = "play_store"
    /\ ffplay_process' = "handle"
    /\ pc' = "play_wait"
    /\ UNCHANGED <<variant, destExisted, library, songs, idx, attempted, tempDir, scratch,
                   leaked, tmpBound, temp_path, player, playerFile, sigs, ret,
                   exc, success, outcome, interrupts, exitStatus>>

\* A play_file that reports every ended session as played (not the code).
PlayResultAlwaysTrue(p) == "True"

\* `if returncode != 0: ... return False` / `return True`
PlayResult(p) == IF p = "exited_0" THEN "True" ELSE "False"

\* returncode = ffplay_process.wait(); return returncode == 0; finally
PlayWaitReturns ==
    /\ pc = "play_wait"
    /\ Exited(player)
    /\ success' = PlayResult(player)
    /\ ffplay_process' = FinallyClearSlot(ffplay_process)
    /\ pc' = "cleanup"
    /\ UNCHANGED <<variant, destExisted, library, songs, idx, attempted, tempDir, scratch,
                   leaked, tmpBound, temp_path, player, playerFile, sigs, ret,
                   exc, outcome, interrupts, exitStatus>>

(***************************************************************************)
(* cleanup_ffplay                                                          *)
(***************************************************************************)
\* A test of the slot alone, without the poll (not what the code does).
ShouldStopAnySlot(slot, p) == slot # None

\* `if ffplay_process and ffplay_process.poll() is None`
ShouldStop(slot, p) == slot # None /\ Alive(p)

\* What the caller of cleanup_ffplay does when it returns; slot is the value
\* cleanup_ffplay leaves in ffplay_process.
\*   play_file's `except KeyboardInterrupt`: raise, then the finally clause
\*   main's `except KeyboardInterrupt`: sys.exit(0)
\*   the atexit hook: the process is gone
AfterCleanupFfplay(caller, slot) ==
    CASE caller = "pf_except" ->
            /\ ffplay_process' = FinallyClearSlot(slot)
            /\ pc' = "cleanup"
            /\ UNCHANGED <<exc, exitStatus>>
      [] caller = "handler" ->
            /\ ffplay_process' = slot
            /\ ExitVia(<<0>>, exc)
      [] caller = "atexit" ->
            /\ ffplay_process' = slot
            /\ pc' = "exited"
            /\ UNCHANGED <<exc, exitStatus>>

\* cleanup_ffplay up to ffplay_process.wait(timeout=2)
cleanup_ffplay(caller) ==
    IF ShouldStop(ffplay_process, player)
    THEN /\ player' = "terminating"
         /\ sigs' = Append(sigs, "TERM")
         /\ ret' = caller
         /\ pc' = "grace_wait"
         /\ UNCHANGED <<ffplay_process, exc, exitStatus>>
    ELSE /\ AfterCleanupFfplay(caller, ffplay_process)
         /\ UNCHANGED <<player, sigs, ret>>

\* stop_music: subprocess.run(['termux-media-player', 'stop'], check=False)
stop_music == player' = IF Alive(player) THEN "none" ELSE player

\* play_file's `except KeyboardInterrupt: cleanup_ffplay(); raise`
PlayFileExcept ==
    /\ pc = "pf_except"
    /\ cleanup_ffplay("pf_except")
    /\ UNCHANGED <<variant, destExisted, library, songs, idx, attempted, tempDir, scratch,
                   leaked, tmpBound, temp_path, playerFile, success, outcome,
                   interrupts>>

\* wait(timeout=2) returns: the process went away within the grace period
GraceWaitReturns ==
    /\ pc = "grace_wait"
    /\ Exited(player)
    /\ AfterCleanupFfplay(ret, None)
    /\ UNCHANGED <<variant, destExisted, library, songs, idx, attempted, tempDir, scratch,
                   leaked, tmpBound, temp_path, player, playerFile, sigs, ret,
                   success, outcome, interrupts>>

\* A grace wait that times out whatever the process did (not the code).
TimeoutExpiredAlways(p) == TRUE

\* wait(timeout=2) raises TimeoutExpired only while the process has not exited.
TimeoutExpired(p) == p = "terminating"

\* wait(timeout=2) raises TimeoutExpired: ffplay_process.kill()
GraceTimeout ==
    /\ pc = "grace_wait"
    /\ TimeoutExpired(player)
    /\ player' = "killed"
    /\ sigs' = Append(sigs, "KILL")
    /\ AfterCleanupFfplay(ret, None)
    /\ UNCHANGED <<variant, destExisted, library, songs, idx, attempted, tempDir, scratch,
                   leaked, tmpBound, temp_path, playerFile, ret, success,
                   outcome, interrupts>>


(***************************************************************************)
(* termux: the play-failure branch and the status poll                     *)
(***************************************************************************)
\* `if not play_file(temp_path): os.remove(temp_path); continue`
\* The removal is not guarded: an OSError leaves the try block.
PlayFailedRemove ==
    /\ pc = "play_failed"
    /\ \/ /\ tempDir[temp_path].exists
          /\ tempDir' = [tempDir EXCEPT ![temp_path] = NoFile]
          /\ UNCHANGED exc
       \/ /\ exc' = "OSError"
          /\ UNCHANGED tempDir
    /\ pc' = "cleanup"
    /\ UNCHANGED <<variant, destExisted, library, songs, idx, attempted, scratch, leaked,
                   tmpBound, temp_path, ffplay_process, player, playerFile,
                   sigs, ret, success, outcome, interrupts, exitStatus>>

\* is_playing(): 'No track currently' not in output; False when the command
\* fails; sys.exit(1) when the executable is missing.
is_playing_result ==
    {IF Alive(player) THEN "True" ELSE "False"}  \* the command answered
        \cup {"False"}                            \* CalledProcessError
        \cup {"SystemExit"}                       \* FileNotFoundError

\* `while is_playing(): time.sleep(1)` leaves the loop (a poll that answers
\* True changes nothing).
Poll ==
    /\ pc = "poll"
    /\ \E r \in is_playing_result :
          /\ r # "True"
          /\ exc' = IF r = "SystemExit" THEN "SystemExit" ELSE exc
    /\ pc' = "cleanup"
    /\ UNCHANGED <<variant, destExisted, library, songs, idx, attempted, tempDir, scratch,
                   leaked, tmpBound, temp_path, ffplay_process, player,
                   playerFile, sigs, ret, success, outcome, interrupts,
                   exitStatus>>

(***************************************************************************)
(* main: the finally clause of one iteration, and leaving the loop         *)
(***************************************************************************)
\* How the iteration ended, from the exception in flight and play's result.
HowEnded(e, ok) ==
    CASE e = "KeyboardInterrupt" -> "interrupted"
      [] e # None /\ e # "KeyboardInterrupt" -> "crashed"
      [] e = None /\ ok = "True" -> "finished"
      [] OTHER -> "play_failed"

\* finally: try: os.remove(temp_path) except OSError: pass
\* then the exception in flight, if any, goes on.
Cleanup ==
    /\ pc = "cleanup"
    /\ \/ tempDir' = [tempDir EXCEPT ![temp_path] = NoFile]
       \/ /\ tempDir[temp_path].exists   \* os.remove raises: swallowed
          /\ UNCHANGED tempDir
    /\ outcome' = [how |-> HowEnded(exc, success), name |-> dest_path]
    /\ CASE exc = None ->
               /\ idx' = idx + 1
               /\ pc' = "for"
               /\ UNCHANGED <<exc, exitStatus>>
         [] exc = "KeyboardInterrupt" ->
               /\ pc' = "handler"
               /\ UNCHANGED <<idx, exc, exitStatus>>
         [] OTHER ->
               /\ ExitVia(<<1>>, exc)
               /\ UNCHANGED idx
    /\ UNCHANGED <<variant, destExisted, library, songs, attempted, scratch, leaked,
                   tmpBound, temp_path, ffplay_process, player, playerFile,
                   sigs, ret, success, interrupts>>

\* except KeyboardInterrupt: print; cleanup_ffplay() / stop_music(); sys.exit(0)
Handler ==
    /\ pc = "handler"
    /\ IF variant = "ffplay"
       THEN cleanup_ffplay("handler")
       ELSE /\ stop_music
            /\ ExitVia(<<0>>, exc)
            /\ UNCHANGED <<ffplay_process, sigs, ret>>
    /\ UNCHANGED <<variant, destExisted, library, songs, idx, attempted, tempDir, scratch,
                   leaked, tmpBound, temp_path, playerFile, success, outcome,
                   interrupts>>

\* The atexit hook: cleanup_ffplay (ffplay) / stop_music (termux).
AtExit ==
    /\ pc = "atexit"
    /\ IF variant = "ffplay"
       THEN cleanup_ffplay("atexit")
       ELSE /\ stop_music
            /\ pc' = "exited"
            /\ UNCHANGED <<ffplay_process, sigs, ret, exc, exitStatus>>
    /\ UNCHANGED <<variant, destExisted, library, songs, idx, attempted, tempDir, scratch,
                   leaked, tmpBound, temp_path, playerFile, success, outcome,
                   interrupts>>

(***************************************************************************)
(* KeyboardInterrupt                                                       *)
(***************************************************************************)
StagePcs == {"stage_create", "stage_open", "stage_copy", "stage_exists",
             "stage_rename"}

\* A KeyboardInterrupt caught inside the loop body, after which the loop
\* goes on (not what the code does).
UnwindsToLoop(p) == IF p = "shuffle" THEN p ELSE "for"

\* Where a KeyboardInterrupt raised at p, outside the inner try, is caught:
\* main's `except KeyboardInterrupt`, around the whole `while True`.
UnwindsTo(p) == "handler"

\* Inside `while True` but outside the inner try: only main's
\* `except KeyboardInterrupt` sees it (copy_to_temp_md5 catches Exception,
\* which KeyboardInterrupt is not).
InterruptOutsideTry ==
    /\ pc \in {"shuffle", "for", "staged"} \cup StagePcs
    /\ interrupts < MaxInterrupts
    /\ interrupts' = interrupts + 1
    /\ exc' = "KeyboardInterrupt"
    /\ pc' = UnwindsTo(pc)
    /\ outcome' = IF pc \in StagePcs \cup {"staged"}
                  THEN [how |-> "interrupted_staging", name |-> dest_path]
                  ELSE outcome
    /\ UNCHANGED <<variant, destExisted, library, songs, idx, attempted, tempDir, scratch,
                   leaked, tmpBound, temp_path, ffplay_process, player,
                   playerFile, sigs, ret, success, exitStatus>>

\* Inside play_file (ffplay): its `except KeyboardInterrupt` runs.
InterruptInPlayFile ==
    /\ variant = "ffplay"
    /\ pc \in {"play_spawn", "play_store", "play_wait"}
    /\ interrupts < MaxInterrupts
    /\ interrupts' = interrupts + 1
    /\ exc' = "KeyboardInterrupt"
    /\ pc' = "pf_except"
    /\ UNCHANGED <<variant, destExisted, library, songs, idx, attempted, tempDir, scratch,
                   leaked, tmpBound, temp_path, ffplay_process, player,
                   playerFile, sigs, ret, success, outcome, exitStatus>>

\* Inside main's inner try but in no handler of its own: the finally clause
\* is next.  (termux: play_file, the failure branch, the poll loop; both:
\* after play_file has returned.)
InterruptInTry ==
    /\ \/ variant = "termux" /\ pc \in {"play_spawn", "play_failed", "poll"}
       \/ pc = "cleanup" /\ exc = None
    /\ interrupts < MaxInterrupts
    /\ interrupts' = interrupts + 1
    /\ exc' = "KeyboardInterrupt"
    /\ pc' = "cleanup"
    /\ UNCHANGED <<variant, destExisted, library, songs, idx, attempted, tempDir, scratch,
                   leaked, tmpBound, temp_path, ffplay_process, player,
                   playerFile, sigs, ret, success, outcome, exitStatus>>

\* Inside cleanup_ffplay: nothing there catches it.  Called from play_file,
\* the finally clause of play_file still clears the slot; called from main's
\* handler or from atexit, the process ends on the uncaught exception.
InterruptInCleanupFfplay ==
    /\ pc \in {"pf_except", "grace_wait"}
    /\ interrupts < MaxInterrupts
    /\ interrupts' = interrupts + 1
    /\ exc' = "KeyboardInterrupt"
    /\ IF pc = "pf_except" \/ ret = "pf_except"
       THEN /\ ffplay_process' = FinallyClearSlot(ffplay_process)
            /\ pc' = "cleanup"
            /\ UNCHANGED exitStatus
       ELSE /\ pc' = IF ret = "handler" THEN "atexit" ELSE "exited"
            /\ exitStatus' = <<130>>
            /\ UNCHANGED ffplay_process
    /\ UNCHANGED <<variant, destExisted, library, songs, idx, attempted, tempDir, scratch,
                   leaked, tmpBound, temp_path, player, playerFile, sigs, ret,
                   success, outcome>>

\* Inside main's `except KeyboardInterrupt`: uncaught, the process dies of it.
InterruptInHandler ==
    /\ pc = "handler"
    /\ interrupts < MaxInterrupts
    /\ interrupts' = interrupts + 1
    /\ ExitVia(<<130>>, "KeyboardInterrupt")
    /\ UNCHANGED <<variant, destExisted, library, songs, idx, attempted, tempDir, scratch,
                   leaked, tmpBound, temp_path, ffplay_process, player,
                   playerFile, sigs, ret, success, outcome>>

(***************************************************************************)
(* Specification                                                           *)
(***************************************************************************)
Next ==
    \/ Startup
    \/ Shuffle
    \/ NextSong
    \/ StageCreate
    \/ StageOpen
    \/ StageCopy
    \/ StageRemoveStale
    \/ StageRename
    \/ CheckStaged
    \/ PlaySpawn
    \/ PlayStore
    \/ PlayWaitReturns
    \/ PlayerEnds
    \/ PlayFileExcept
    \/ GraceWaitReturns
    \/ GraceTimeout
    \/ PlayFailedRemove
    \/ Poll
    \/ Cleanup
    \/ Handler
    \/ AtExit
    \/ InterruptOutsideTry
    \/ InterruptInPlayFile
    \/ InterruptInTry
    \/ InterruptInCleanupFfplay
    \/ InterruptInHandler

Spec == Init /\ [][Next]_vars

\* The steps of the main thread: the interpreter runs the next statement
\* whenever there is one to run.
MainThread ==
    \/ Startup \/ Shuffle \/ NextSong
    \/ StageCreate \/ StageOpen \/ StageCopy \/ StageRemoveStale \/ StageRename
    \/ CheckStaged \/ PlaySpawn \/ PlayStore \/ PlayWaitReturns
    \/ PlayFileExcept \/ GraceWaitReturns \/ GraceTimeout
    \/ PlayFailedRemove \/ Poll \/ Cleanup \/ Handler \/ AtExit

\* The program keeps running, and every player session ends; interruptions
\* may or may not come.
LiveSpec == Spec /\ WF_vars(MainThread) /\ WF_vars(PlayerEnds)


(***************************************************************************)
(* Properties                                                              *)
(***************************************************************************)
Terminated == pc = "exited"

\* The derived-name files this run of the program has created.
MyStaged == {n \in Names : tempDir[n].exists /\ tempDir[n].mine}

\* The positions of the main thread inside play_file (ffplay).
PlayFilePcs == {"play_spawn", "play_store", "play_wait", "pf_except",
                "grace_wait"}

\* C1: cleanup totality. Once an iteration has ended by normal completion,
\* play failure, staging failure or an interruption inside the try block,
\* nothing exists at the derived-name path of its Track.
C1_CleanupTotality ==
    outcome.how \in {"finished", "play_failed", "stage_failed", "interrupted"}
        => ~tempDir[outcome.name].exists

\* C2: interrupted shutdown. A process that has ended after one interruption
\* of the playback loop has ended with status 0, leaves no player alive and
\* leaves no staged file and no scratch file of its own in the temp
\* directory.
C2_InterruptedShutdown ==
    (Terminated /\ interrupts = 1)
        => /\ exitStatus = <<0>>
           /\ ~Alive(player)
           /\ MyStaged = {}
           /\ ~scratch.exists
           /\ leaked = 0

\* C3: at most one. At most one staged file of this run exists, and the loop
\* is never staging or about to start a Track while a player session is
\* still in flight.
C3_AtMostOne ==
    /\ Cardinality(MyStaged) <= 1
    /\ pc \in StagePcs \cup {"staged", "play_spawn"} => ~Alive(player)

\* C4: when stage has failed (it returned None, or it raised), the scratch
\* file it created does not exist.
C4_FailedStageLeavesNoScratch ==
    \/ pc = "staged" /\ temp_path = NoPath
    \/ outcome.how = "stage_crashed"
    => ~scratch.exists

\* C5: per-track error containment. The process never ends because staging
\* raised or because the player could not be spawned.
C5_PerTrackContainment ==
    exitStatus # Running => exc \notin {"UnboundLocalError", "FileNotFoundError"}

\* C6: the handle slot is empty whenever play_file is not executing, and
\* cleanup_ffplay sends a signal only when called from inside play_file.
C6_SlotEmptyOutsidePlayFile ==
    /\ pc \notin PlayFilePcs => ffplay_process = None
    /\ pc = "grace_wait" => ret = "pf_except"

\* C6 witness: the process is leaving after an interruption of the player
\* wait during which the player was signalled; the slot is empty.
C6_Witness ==
    /\ variant = "ffplay"
    /\ pc = "atexit"
    /\ sigs # <<>>
    /\ ffplay_process = None

\* C7: atomic publish. Whatever exists under a derived name is a complete
\* file: a stale one or a full copy, never a partly written one.
C7_AtomicPublish ==
    \A n \in Names :
        tempDir[n].exists =>
            /\ tempDir[n].complete
            /\ \/ tempDir[n] = StaleFile
               \/ \E i \in 1..NumTracks :
                     /\ DerivedName(MusicFiles[i]) = n
                     /\ tempDir[n] = FullCopy(i)

\* C7 witness: a copy broke off, its partial scratch file is on disk, and a
\* file exists under the derived name of the same Track.
C7_Witness ==
    /\ pc = "staged"
    /\ scratch.exists /\ ~scratch.complete /\ scratch.data # 0
    /\ tempDir[dest_path].exists

\* The path stage is to return for a file name with an extension: the hash
\* of everything before the last token, and the last token as it is written.
ExpectedPath(path) ==
    [hash |-> Md5(SubSeq(path.name, 1, Len(path.name) - 1)),
     ext  |-> path.name[Len(path.name)]]

\* C8: stage postcondition. When stage has succeeded, the returned path is
\* the derived name of the Track, the file there is a full copy of the
\* source made by this call (a stale file is gone), and no scratch file is
\* left.
C8_StagePostcondition ==
    (pc = "staged" /\ temp_path # NoPath)
        => /\ temp_path = ExpectedPath(song)
           /\ tempDir[temp_path] = FullCopy(library[song])
           /\ ~scratch.exists

\* C8 witness: stage has succeeded where a file already was at the path.
C8_Witness ==
    /\ pc = "staged"
    /\ temp_path # NoPath
    /\ destExisted

IsPermutationOf(s, t) ==
    /\ Len(s) = Len(t)
    /\ \A x \in Range(t) :
          Cardinality({i \in 1..Len(s) : s[i] = x}) =
          Cardinality({i \in 1..Len(t) : t[i] = x})

\* C9: full-coverage shuffling. The list of Tracks stays a rearrangement of
\* what the startup scan found, a pass that is over has attempted each Track
\* exactly once, and a process that got into the loop ends only after an
\* interruption.
C9_FullCoverage ==
    /\ songs # <<>> => IsPermutationOf(songs, gather_music_files(library))
    /\ (pc = "for" /\ idx > Len(songs)) => IsPermutationOf(attempted, songs)
    /\ (exitStatus # Running /\ songs # <<>>) => interrupts >= 1

\* C10: a failing removal of the staged file never raises out of the
\* iteration and never ends the process.
C10_RemovalFailureSwallowed ==
    pc \in {"atexit", "exited"} => exc # "OSError"

C12_MissingPlayerFatalAtStartupOnly ==
    /\ (exitStatus # Running /\ songs = <<>>)
          => /\ exitStatus = <<1>>
             /\ attempted = <<>>
             /\ player = "none"
             /\ temp_path = NoPath
    /\ (exitStatus # Running /\ attempted # <<>>)
          => exc \notin {"FileNotFoundError", "SystemExit"}

\* C13: no step of staging, playing, cleaning up or handling an interruption
\* changes the existence or the content of any file under the library root;
\* every write, rename and removal of the program lands in the temp directory.
C13_LibraryUntouched == [][library' = library]_vars

\* C13 witness: a run over the music folder that staged and played Tracks,
\* was interrupted and ended, with the folder as it was.
C13_Witness ==
    /\ Terminated
    /\ Len(attempted) >= 2
    /\ interrupts >= 1
    /\ player # "none"
    /\ library = MusicFolder

\* The moves of one player session: Idle is "none", Running is "running" (and
\* "terminating" once TERM was sent), Exited(code) is one of the exited_*
\* values, Killed is "killed"; main's next `for` step begins a new invocation.
SessionMoves ==
    {<<"none", "running">>,
     <<"running", "exited_0">>, <<"running", "exited_1">>,
     <<"running", "terminating">>,
     <<"terminating", "exited_term">>, <<"terminating", "killed">>}
        \cup {<<p, "none">> : p \in {"exited_0", "exited_1", "exited_term", "killed"}}

\* C14: in the ffplay variant the session only moves Idle -> Spawning ->
\* Running -> {Exited, Killed}; an ended session is never running again, it
\* is only forgotten when main takes the next song; a session starts only at
\* play_file's Popen; and a TERM or KILL signal is sent only to a live session
\* and only after an interruption.
C14_SessionStateMachine ==
    [][variant = "ffplay" =>
          /\ player' # player => <<player, player'>> \in SessionMoves
          /\ (player' = "running" /\ player # "running") => pc = "play_spawn"
          /\ (player' = "none" /\ player # "none") => pc = "for"
          /\ (player' \in {"terminating", "killed"} /\ player' # player)
                => /\ interrupts >= 1
                   /\ Alive(player)
                   /\ Len(sigs') = Len(sigs) + 1
          /\ (sigs' # sigs /\ sigs' # <<>>) => (interrupts >= 1 /\ Alive(player))
      ]_vars

\* C14 witness: play_file ended with its session killed after an interruption.
C14_Witness ==
    /\ variant = "ffplay"
    /\ pc = "handler"
    /\ player = "killed"
    /\ sigs = <<"TERM", "KILL">>

\* C15 as claimed: once in the playback loop, if no interruption occurs the
\* current pass completes and a new pass begins, whatever stage and play
\* failures the Tracks meet.
C15_Progress ==
    (songs # <<>> /\ interrupts = 0) ~> (pc = "shuffle" \/ interrupts >= 1)

\* The same progress, for the ffplay variant alone.
C15_ProgressFfplay ==
    (variant = "ffplay" /\ songs # <<>> /\ interrupts = 0)
        ~> (pc = "shuffle" \/ interrupts >= 1)

\* C16 as claimed: while the player is playing a staged file and has not been
\* told to stop, that staged file exists.
C16_StagedFileOutlivesSession ==
    player = "running" => tempDir[playerFile].exists

\* C17 as claimed: in the ffplay variant, once play_file has returned or
\* raised, the player process it spawned has exited or has been killed.
C17_NoAbandonedSession ==
    (variant = "ffplay" /\ pc \notin PlayFilePcs) => ~Alive(player)

\* The positions at which cleanup_ffplay is entered: from play_file's
\* handler, from main's handler, from the atexit hook.
CleanupFfplayCalls == {"pf_except", "handler", "atexit"}

\* C18: cleanup_ffplay signals only a process that is in the slot and has not
\* exited; TERM comes first, at its entry; KILL comes only at the end of the
\* grace wait, to a process that is still alive; a call that finds the slot
\* empty or the process exited sends nothing and changes nothing of the
\* player; and a call that acted and returned leaves the slot empty.
C18_StopProtocol ==
    [][variant = "ffplay" =>
          /\ sigs' \in {<<>>, <<"TERM">>, <<"TERM", "KILL">>}
          /\ (sigs' # sigs /\ sigs' # <<>>)
                => /\ ffplay_process # None
                   /\ Alive(player)
                   /\ IF sigs = <<>>
                      THEN /\ sigs' = <<"TERM">>
                           /\ pc \in CleanupFfplayCalls
                           /\ player = "running"
                           /\ pc' = "grace_wait"
                      ELSE /\ sigs' = <<"TERM", "KILL">>
                           /\ pc = "grace_wait"
                           /\ player = "terminating"
                           /\ player' = "killed"
          /\ (/\ pc \in CleanupFfplayCalls
              /\ pc' # pc
              /\ ~(ffplay_process # None /\ Alive(player)))
                => (sigs' = sigs /\ player' = player)
          /\ (pc = "grace_wait" /\ pc' # "grace_wait" /\ interrupts' = interrupts)
                => ffplay_process' = None
      ]_vars

\* C18 witness: the process has ended with status 0 after an interruption on
\* which the player got TERM, then KILL; the later calls from main's handler
\* and from the atexit hook have added nothing.
C18_Witness ==
    /\ Terminated
    /\ variant = "ffplay"
    /\ exitStatus = <<0>>
    /\ player = "killed"
    /\ sigs = <<"TERM", "KILL">>
    /\ ffplay_process = None

\* The positions of the main thread at which an interruption is unwinding or
\* the process is shutting down.
ShutdownPcs == {"pf_except", "grace_wait", "cleanup", "handler", "atexit",
                "exited"}

\* C19: once an interruption has been delivered, the main thread is only
\* unwinding the Track in flight or shutting down, and no step after it takes
\* another Track, writes a file to the temp directory or starts a player.
C19_NoWorkAfterInterruption ==
    [][interrupts >= 1 =>
          /\ pc \in ShutdownPcs
          /\ pc' \in ShutdownPcs
          /\ attempted' = attempted
          /\ idx' = idx
          /\ \A n \in Names : tempDir'[n].exists => tempDir[n].exists
          /\ scratch'.exists => scratch.exists
          /\ player' = "running" => player = "running"
      ]_vars

\* C19 witness: interrupted in the middle of a pass with a Track played, the
\* process has ended with status 0 with Tracks of that pass never attempted.
C19_Witness ==
    /\ Terminated
    /\ interrupts >= 1
    /\ exitStatus = <<0>>
    /\ player # "none"
    /\ Len(attempted) < Len(songs)

====
